---- MODULE Spec2Model ----
(***************************************************************************)
(* Model of src/metrics_hub.py: the hub metrics tap of a multi-robot       *)
(* search trial.  Two flows share the trial state: the MQTT network thread *)
(* started by client.loop_start(), which runs on_message once per inbound  *)
(* message, and the main thread, which sets t0, polls done_flag, stops the *)
(* network thread, prompts the operator and writes three CSV files.        *)
(*                                                                         *)
(* Strings that the code takes apart (topics, payloads) are sequences of   *)
(* one-character strings.  Python's None is the empty sequence and a       *)
(* present value v is <<v>>.  Times are integers (clock readings).         *)
(***************************************************************************)
EXTENDS Integers, Sequences, FiniteSets, TLC

\* ---------------------------------------------------------------- bounds

\* Largest number of robot-topic messages the listener is handed in a run.
MaxMsgs == 3
\* Largest reading of the wall clock (now_s) in a run.
MaxTime == 1

\* ------------------------------------------------------------- constants

None == <<>>
Some(v) == <<v>>

\* ROBOT_IDS = ["00", "01", "02", "03"]
ROBOT_IDS == << <<"0", "0">>, <<"0", "1">>, <<"0", "2">>, <<"0", "3">> >>
RobotSet == {ROBOT_IDS[i] : i \in 1..Len(ROBOT_IDS)}

\* VALID_DIGITS = set("123456"); the string "123456" is also the key order
\* of the per-digit counters.
DIGITS == <<"1", "2", "3", "4", "5", "6">>
VALID_DIGITS == {DIGITS[i] : i \in 1..Len(DIGITS)}

HUB_COMMAND_TOPIC == <<"h", "u", "b", "/", "c", "o", "m", "m", "a", "n", "d">>

\* ------------------------------------------------------------ the inputs

START_PAYLOAD == <<"1">>

\* Payload texts:  "0,0"   "0,1-"   " 0 , 1 "   "abc"   "0,1--"
P00 == <<"0", ",", "0">>
P01h == <<"0", ",", "1", "-">>
P01s == <<" ", "0", " ", ",", " ", "1", " ">>
Pabc == <<"a", "b", "c">>
P01hh == <<"0", ",", "1", "-", "-">>

Msg(topic, payload) == [topic |-> topic, payload |-> payload]

\* The messages the broker delivers (the subscription is "#"), each any
\* number of times and in any order.  Robot 00 reports positions, clues and
\* targets, with payloads in every accepted form and in two rejected ones,
\* and sends a count-only kind 2; robot 01 reports positions, a clue and a
\* target.  The hub's own start command (a topic of the wrong length), a
\* topic of an unknown robot and one with an invalid digit arrive as well.
Messages ==
    { Msg(<<"0", "0", "1">>, P00), Msg(<<"0", "0", "1">>, P01h),
      Msg(<<"0", "0", "1">>, Pabc),
      Msg(<<"0", "0", "4">>, P00), Msg(<<"0", "0", "4">>, P01s),
      Msg(<<"0", "0", "5">>, P01h), Msg(<<"0", "0", "5">>, P01hh),
      Msg(<<"0", "0", "2">>, P00),
      Msg(<<"0", "1", "1">>, P00), Msg(<<"0", "1", "1">>, P01s),
      Msg(<<"0", "1", "4">>, P01h),
      Msg(<<"0", "1", "5">>, P00),
      Msg(HUB_COMMAND_TOPIC, START_PAYLOAD),
      Msg(<<"0", "4", "1">>, P00),
      Msg(<<"0", "0", "7">>, P00) }

\* Operator answers to the collision prompt (prompt_xy).
TargetInputs == { <<7, 8>> }
AlgInputs == {1}
ErrPctInputs == {15}

\* ----------------------------------------------------------------- state

VARIABLES
    robots,             \* rid -> robot state (make_robot_state)
    team_visit_counts,  \* dict cell -> count: a function on the cells seen
    msg_total_system,
    msg_total_by_digit,
    t0,
    t_first_clue,
    first_clue_loc,
    pos_at_first_clue,
    clue_locs,
    t_end,
    end_reporter,
    end_loc_reported,
    done,               \* done_flag["done"]
    clock,              \* the latest reading of now_s()
    listener,           \* the network thread: "running", "crashed", "stopped"
    pc,                 \* the main thread's position in main()
    answers,            \* the operator's answers to the prompts
    files,              \* the output files written so far: name -> content
    history             \* what the listener was handed so far (see Note)

trial == <<robots, team_visit_counts, msg_total_system, msg_total_by_digit,
           t_first_clue, first_clue_loc, pos_at_first_clue, clue_locs,
           t_end, end_reporter, end_loc_reported>>

vars == <<robots, team_visit_counts, msg_total_system, msg_total_by_digit, t0,
          t_first_clue, first_clue_loc, pos_at_first_clue, clue_locs,
          t_end, end_reporter, end_loc_reported, done, clock, listener, pc,
          answers, files, history>>

\* --------------------------------------------------------------- helpers

RECURSIVE SumSeq(_)
SumSeq(s) == IF s = <<>> THEN 0 ELSE Head(s) + SumSeq(Tail(s))

RECURSIVE SumSet(_, _)
SumSet(S, f) ==
    IF S = {} THEN 0
    ELSE LET x == CHOOSE y \in S : TRUE IN f[x] + SumSet(S \ {x}, f)

Max(a, b) == IF a >= b THEN a ELSE b

\* ---- parse_robot_topic

parse_robot_topic(topic) ==
    IF Len(topic) # 3 THEN None
    ELSE LET rid == SubSeq(topic, 1, 2)
             dig == topic[3]
         IN  IF rid \in RobotSet /\ dig \in VALID_DIGITS
             THEN Some(<<rid, dig>>)
             ELSE None

\* ---- parse_coord

IsSpace(c) == c = " "
DigitChars == <<"0", "1", "2", "3", "4", "5", "6", "7", "8", "9">>
IsDigit(c) == \E i \in 1..10 : DigitChars[i] = c
DigitVal(c) == (CHOOSE i \in 1..10 : DigitChars[i] = c) - 1

RECURSIVE LStrip(_)
LStrip(s) == IF s # <<>> /\ IsSpace(Head(s)) THEN LStrip(Tail(s)) ELSE s

RECURSIVE RStrip(_)
RStrip(s) ==
    IF s # <<>> /\ IsSpace(s[Len(s)]) THEN RStrip(SubSeq(s, 1, Len(s) - 1)) ELSE s

\* str.strip()
Strip(s) == RStrip(LStrip(s))

\* \d+
IsDigits(s) == s # <<>> /\ \A i \in 1..Len(s) : IsDigit(s[i])

\* -?\d+
IsIntText(s) ==
    IF s # <<>> /\ Head(s) = "-" THEN IsDigits(Tail(s)) ELSE IsDigits(s)

RECURSIVE DigitsVal(_)
DigitsVal(s) ==
    IF s = <<>> THEN 0
    ELSE 10 * DigitsVal(SubSeq(s, 1, Len(s) - 1)) + DigitVal(s[Len(s)])

\* int()
IntVal(s) == IF Head(s) = "-" THEN 0 - DigitsVal(Tail(s)) ELSE DigitsVal(s)

\* re.fullmatch(r"\s*(-?\d+)\s*,\s*(-?\d+)\s*", s): the places of a comma
\* with an integer, possibly surrounded by white space, on either side.
CoordSplits(s) ==
    { i \in 1..Len(s) :
        /\ s[i] = ","
        /\ IsIntText(Strip(SubSeq(s, 1, i - 1)))
        /\ IsIntText(Strip(SubSeq(s, i + 1, Len(s)))) }

\* parse_coord with re.match in the place of re.fullmatch: text after the
\* second integer is let through.
parse_coord_prefix_match(payload) ==
    LET s1 == Strip(payload)
        s  == IF s1 # <<>> /\ s1[Len(s1)] = "-"
              THEN Strip(SubSeq(s1, 1, Len(s1) - 1))
              ELSE s1
        ends == {k \in 1..Len(s) : CoordSplits(SubSeq(s, 1, k)) # {}}
    IN  IF ends = {} THEN None
        ELSE LET k == CHOOSE e \in ends : \A e2 \in ends : e2 <= e
                 m == SubSeq(s, 1, k)
                 i == CHOOSE j \in CoordSplits(m) : TRUE
             IN  Some(<<IntVal(Strip(SubSeq(m, 1, i - 1))),
                        IntVal(Strip(SubSeq(m, i + 1, Len(m))))>>)

parse_coord(payload) ==
    LET s1 == Strip(payload)
        s  == IF s1 # <<>> /\ s1[Len(s1)] = "-"
              THEN Strip(SubSeq(s1, 1, Len(s1) - 1))
              ELSE s1
    IN  IF CoordSplits(s) = {} THEN None
        ELSE LET i == CHOOSE j \in CoordSplits(s) : TRUE
             IN  Some(<<IntVal(Strip(SubSeq(s, 1, i - 1))),
                        IntVal(Strip(SubSeq(s, i + 1, Len(s))))>>)

\* ---- the state records

make_robot_state ==
    [ last_pos       |-> None,
      steps_total    |-> 0,
      steps_preclue  |-> 0,
      steps_postclue |-> 0,
      visited        |-> {},
      revisits       |-> 0,
      msg_by_digit   |-> [d \in VALID_DIGITS |-> 0] ]

Init ==
    /\ robots = [rid \in RobotSet |-> make_robot_state]
    /\ team_visit_counts = [c \in {} |-> 0]
    /\ msg_total_system = 0
    /\ msg_total_by_digit = [d \in VALID_DIGITS |-> 0]
    /\ t0 = None
    /\ t_first_clue = None
    /\ first_clue_loc = None
    /\ pos_at_first_clue = None
    /\ clue_locs = <<>>
    /\ t_end = None
    /\ end_reporter = None
    /\ end_loc_reported = None
    /\ done = FALSE
    /\ clock = 0
    /\ listener = "running"
    /\ pc = "start"
    /\ answers = None
    /\ files = [f \in {} |-> 0]
    /\ history =
         [ delivered    |-> [rid \in RobotSet |-> [d \in VALID_DIGITS |-> 0]],
           pos          |-> [rid \in RobotSet |->
                               [n |-> 0, last |-> None, repeat |-> FALSE]],
           clues        |-> <<>>,
           first_clue   |-> None,
           targets      |-> 0,
           first_target |-> None,
           seen_target  |-> FALSE,
           handed       |-> 0,
           last         |-> "none" ]

\* ------------------------------------------------------------ the handlers

\* mark_team_visit with the count set to 1 instead of incremented.
mark_team_visit_overwrites(tvc, cell) ==
    [c \in DOMAIN tvc \cup {cell} |-> IF c = cell THEN 1 ELSE tvc[c]]

\* mark_team_visit: team_visit_counts[cell] = team_visit_counts.get(cell, 0) + 1
mark_team_visit(tvc, cell) ==
    [c \in DOMAIN tvc \cup {cell} |->
        IF c = cell
        THEN (IF cell \in DOMAIN tvc THEN tvc[cell] ELSE 0) + 1
        ELSE tvc[c]]

\* VisitCell with revisits incremented for a new cell as well.
VisitCell_always_counts(rs, cell) ==
    [rs EXCEPT !.revisits = @ + 1, !.visited = @ \cup {cell}]

\* if cell in rs["visited"]: rs["revisits"] += 1  else: rs["visited"].add(cell)
VisitCell(rs, cell) ==
    IF cell \in rs.visited
    THEN [rs EXCEPT !.revisits = @ + 1]
    ELSE [rs EXCEPT !.visited = @ \cup {cell}]

\* PlaceFirst with the first placement counted as a step.
PlaceFirst_counts_step(R, rid, cell) ==
    /\ robots' = [R EXCEPT ![rid] =
                     VisitCell([R[rid] EXCEPT !.last_pos = Some(cell),
                                              !.steps_total = @ + 1,
                                              !.steps_preclue = @ + 1], cell)]
    /\ team_visit_counts' = mark_team_visit(team_visit_counts, cell)

\* PlaceFirst without the call of mark_team_visit.
PlaceFirst_no_team_visit(R, rid, cell) ==
    /\ robots' = [R EXCEPT ![rid] =
                     VisitCell([R[rid] EXCEPT !.last_pos = Some(cell)], cell)]
    /\ team_visit_counts' = team_visit_counts

\* The first branch of handle_position: the robot had no position yet.
PlaceFirst(R, rid, cell) ==
    /\ robots' = [R EXCEPT ![rid] =
                     VisitCell([R[rid] EXCEPT !.last_pos = Some(cell)], cell)]
    /\ team_visit_counts' = mark_team_visit(team_visit_counts, cell)

\* ClassifyStep with the post-clue count forgotten.
ClassifyStep_drops_post(rs, t_rel) ==
    IF t_first_clue = None
    THEN [rs EXCEPT !.steps_preclue = @ + 1]
    ELSE IF t_rel < t_first_clue[1]
    THEN [rs EXCEPT !.steps_preclue = @ + 1]
    ELSE rs

\* ClassifyStep with a step at the first clue's time counted as pre-clue.
ClassifyStep_clue_time_is_pre(rs, t_rel) ==
    IF t_first_clue = None
    THEN [rs EXCEPT !.steps_preclue = @ + 1]
    ELSE IF t_rel <= t_first_clue[1]
    THEN [rs EXCEPT !.steps_preclue = @ + 1]
    ELSE [rs EXCEPT !.steps_postclue = @ + 1]

\* The pre/post first-clue split of a step.
ClassifyStep(rs, t_rel) ==
    IF t_first_clue = None
    THEN [rs EXCEPT !.steps_preclue = @ + 1]
    ELSE IF t_rel < t_first_clue[1]
    THEN [rs EXCEPT !.steps_preclue = @ + 1]
    ELSE [rs EXCEPT !.steps_postclue = @ + 1]

\* The last branch of handle_position: a step to another cell.
MoveStep(R, rid, cell, t_rel) ==
    LET moved == [R[rid] EXCEPT !.last_pos = Some(cell), !.steps_total = @ + 1]
    IN  /\ robots' = [R EXCEPT ![rid] =
                         VisitCell(ClassifyStep(moved, t_rel), cell)]
        /\ team_visit_counts' = mark_team_visit(team_visit_counts, cell)

\* handle_position without the "cell == last_pos" early return.
handle_position_no_rest_check(R, rid, cell, t_rel) ==
    IF R[rid].last_pos = None
    THEN PlaceFirst(R, rid, cell)
    ELSE MoveStep(R, rid, cell, t_rel)

\* handle_position, on the robots as they are after the message was counted.
handle_position(R, rid, cell, t_rel) ==
    IF R[rid].last_pos = None
    THEN PlaceFirst(R, rid, cell)
    ELSE IF Some(cell) = R[rid].last_pos
    THEN /\ robots' = R
         /\ team_visit_counts' = team_visit_counts
    ELSE MoveStep(R, rid, cell, t_rel)

\* handle_clue without the "first clue only" test.
handle_clue_relatches(R, rid, cell, t_rel) ==
    /\ clue_locs' = Append(clue_locs, cell)
    /\ t_first_clue' = Some(t_rel)
    /\ first_clue_loc' = Some(cell)
    /\ pos_at_first_clue' = Some([r \in RobotSet |-> R[r].last_pos])

handle_clue(R, rid, cell, t_rel) ==
    /\ clue_locs' = Append(clue_locs, cell)
    /\ IF t_first_clue = None
       THEN /\ t_first_clue' = Some(t_rel)
            /\ first_clue_loc' = Some(cell)
            /\ pos_at_first_clue' = Some([r \in RobotSet |-> R[r].last_pos])
       ELSE UNCHANGED <<t_first_clue, first_clue_loc, pos_at_first_clue>>

\* handle_target without the "already ended" early return.
handle_target_relatches(rid, cell, t_rel) ==
    /\ t_end' = Some(t_rel)
    /\ end_reporter' = Some(rid)
    /\ end_loc_reported' = Some(cell)
    /\ done' = TRUE

handle_target(rid, cell, t_rel) ==
    IF t_end # None
    THEN UNCHANGED <<t_end, end_reporter, end_loc_reported, done>>
    ELSE /\ t_end' = Some(t_rel)
         /\ end_reporter' = Some(rid)
         /\ end_loc_reported' = Some(cell)
         /\ done' = TRUE

\* Counted with the per-robot counter forgotten.
Counted_forgets_robot(rid, dig) == robots

\* robots[rid]["msg_by_digit"][dig] += 1
Counted(rid, dig) == [robots EXCEPT ![rid].msg_by_digit[dig] = @ + 1]

clueVars == <<t_first_clue, first_clue_loc, pos_at_first_clue, clue_locs>>
endVars == <<t_end, end_reporter, end_loc_reported>>

\* on_message, run by the network thread.  `now` is what now_s() returns if
\* the handler gets as far as reading the clock.  "t_rel = now_s() - t0"
\* with t0 still None raises TypeError, which ends the network thread.
on_message(topic, payload, now) ==
    LET parsed == parse_robot_topic(topic) IN
    IF parsed = None
    THEN UNCHANGED <<robots, team_visit_counts, msg_total_system,
                     msg_total_by_digit, clueVars, endVars, done, clock,
                     listener>>
    ELSE
    LET rid == parsed[1][1]
        dig == parsed[1][2]
        counted == Counted(rid, dig)
        cell == IF dig \in {"1", "4", "5"} THEN parse_coord(payload) ELSE None
    IN
    /\ msg_total_system' = msg_total_system + 1
    /\ msg_total_by_digit' = [msg_total_by_digit EXCEPT ![dig] = @ + 1]
    /\ IF cell = None
       THEN /\ robots' = counted
            /\ UNCHANGED <<team_visit_counts, clueVars, endVars, done, clock,
                           listener>>
       ELSE /\ clock' = now
            /\ IF t0 = None
               THEN /\ robots' = counted
                    /\ listener' = "crashed"
                    /\ UNCHANGED <<team_visit_counts, clueVars, endVars, done>>
               ELSE LET t_rel == now - t0[1] IN
                    /\ listener' = listener
                    /\ IF dig = "1"
                       THEN /\ handle_position(counted, rid, cell[1], t_rel)
                            /\ UNCHANGED <<clueVars, endVars, done>>
                       ELSE IF dig = "4"
                       THEN /\ handle_clue(counted, rid, cell[1], t_rel)
                            /\ robots' = counted
                            /\ UNCHANGED <<team_visit_counts, endVars, done>>
                       ELSE /\ handle_target(rid, cell[1], t_rel)
                            /\ robots' = counted
                            /\ UNCHANGED <<team_visit_counts, clueVars>>

\* The record of what the listener was handed, kept beside the program's
\* own state and computed from the messages alone:
\*   delivered[rid][dig]  messages with the valid robot topic rid+dig
\*   pos[rid]             the Position events of rid that reached
\*                        handle_position: their number, the cell of the
\*                        latest one, and whether two consecutive ones
\*                        carried the same cell
\*   clues                the cells of the Clue events that reached
\*                        handle_clue, in order
\*   first_clue           time and cell of the first of them, and every
\*                        robot's last_pos at that moment
\*   targets              the number of Target events that reached
\*                        handle_target
\*   first_target         time, robot and cell of the first of them
\*   seen_target          whether on_message was handed a message with a
\*                        valid robot topic of kind 5 and a parseable payload
\*   handed, last         see DeliverCounted
\* An event reaches its handler when the topic is valid, the payload parses
\* and t0 is set.
Note(topic, payload, now) ==
    LET parsed == parse_robot_topic(topic) IN
    IF parsed = None THEN history
    ELSE
    LET rid == parsed[1][1]
        dig == parsed[1][2]
        cell == parse_coord(payload)
        h1 == [history EXCEPT
                 !.delivered[rid][dig] = @ + 1,
                 !.seen_target = @ \/ (dig = "5" /\ cell # None)]
    IN  IF dig \notin {"1", "4", "5"} \/ cell = None \/ t0 = None THEN h1
        ELSE LET t == now - t0[1] IN
             IF dig = "1"
             THEN [h1 EXCEPT !.pos[rid] =
                     [n |-> @.n + 1, last |-> cell,
                      repeat |-> @.repeat \/ @.last = cell]]
             ELSE IF dig = "4"
             THEN [h1 EXCEPT
                     !.clues = Append(@, cell[1]),
                     !.first_clue =
                        IF @ # None THEN @
                        ELSE Some([t |-> t, cell |-> cell[1],
                                   at |-> [r \in RobotSet |-> robots[r].last_pos]])]
             ELSE [h1 EXCEPT
                     !.targets = @ + 1,
                     !.first_target =
                        IF @ # None THEN @
                        ELSE Some([t |-> t, rid |-> rid, cell |-> cell[1]])]

\* The network thread hands one inbound message to on_message.
Deliver ==
    /\ listener = "running"
    /\ \E msg \in Messages, now \in clock..MaxTime :
        /\ parse_robot_topic(msg.topic) # None => msg_total_system < MaxMsgs
        /\ on_message(msg.topic, msg.payload, now)
        /\ history' = Note(msg.topic, msg.payload, now)
    /\ UNCHANGED <<t0, pc, answers, files>>

\* What the bus handed over, by topic and payload text: "invalid" (not a
\* robot topic), "count_only" (kinds 2, 3, 6), "unparseable" (kinds 1, 4, 5
\* with a payload that is no "<int>,<int>" with at most one trailing
\* hyphen: "abc" and "0,1--") or "coordinate".
Class(msg) ==
    IF ~ (/\ Len(msg.topic) = 3
          /\ SubSeq(msg.topic, 1, 2) \in RobotSet
          /\ msg.topic[3] \in VALID_DIGITS)
    THEN "invalid"
    ELSE IF msg.topic[3] \in {"2", "3", "6"} THEN "count_only"
    ELSE IF msg.payload \in {Pabc, P01hh} THEN "unparseable"
    ELSE "coordinate"

\* Deliver, with every message handed to on_message recorded, the ignored
\* ones included: history.handed is their number (at most MaxMsgs here) and
\* history.last the class of the latest.
DeliverCounted ==
    /\ listener = "running"
    /\ history.handed < MaxMsgs
    /\ \E msg \in Messages, now \in clock..MaxTime :
        /\ on_message(msg.topic, msg.payload, now)
        /\ history' = [Note(msg.topic, msg.payload, now) EXCEPT
                          !.handed = @ + 1, !.last = Class(msg)]
    /\ UNCHANGED <<t0, pc, answers, files>>

\* ---- a scripted run

\* The events of the end-to-end scenario, in bus-delivery order: topic, the
\* payload texts that carry the cell, and the times relative to t0 at which
\* on_message may read the clock (the two initial placements have no stated
\* time: any time up to that of the event that follows).
Script ==
    << [topic |-> <<"0", "0", "1">>, payloads |-> {P00}, ts |-> 0..2],
       [topic |-> <<"0", "1", "1">>,
        payloads |-> { <<"5", ",", "5">>, <<"5", ",", "5", "-">> }, ts |-> 0..2],
       [topic |-> <<"0", "0", "1">>, payloads |-> {P01h, P01s}, ts |-> {2}],
       [topic |-> <<"0", "1", "4">>, payloads |-> { <<"3", ",", "3">> }, ts |-> {3}],
       [topic |-> <<"0", "0", "1">>, payloads |-> { <<"0", ",", "2">> }, ts |-> {4}],
       [topic |-> <<"0", "0", "5">>, payloads |-> { <<"0", ",", "2", "-">> },
        ts |-> {10}] >>

\* Messages that arrive between the scripted events and reach no handler.
ScriptNoise ==
    { Msg(<<"0", "2", "2">>, P00), Msg(<<"0", "3", "1">>, Pabc),
      Msg(HUB_COMMAND_TOPIC, START_PAYLOAD) }

\* The number of events that have reached a handler.
Handled ==
    SumSet(RobotSet, [r \in RobotSet |-> history.pos[r].n])
        + Len(history.clues) + history.targets

\* The network thread hands the next scripted event to on_message, after
\* the main thread has set t0.
ScriptDeliver ==
    /\ listener = "running"
    /\ t0 # None
    /\ Handled < Len(Script)
    /\ LET ev == Script[Handled + 1] IN
        \E payload \in ev.payloads, t \in ev.ts :
            /\ t0[1] + t >= clock
            /\ on_message(ev.topic, payload, t0[1] + t)
            /\ history' = Note(ev.topic, payload, t0[1] + t)
    /\ UNCHANGED <<t0, pc, answers, files>>

\* The network thread hands over a message that reaches no handler.
NoiseDeliver ==
    /\ listener = "running"
    /\ msg_total_system - Handled < MaxMsgs
    /\ \E msg \in ScriptNoise :
        /\ on_message(msg.topic, msg.payload, clock)
        /\ history' = Note(msg.topic, msg.payload, clock)
    /\ UNCHANGED <<t0, pc, answers, files>>

\* ------------------------------------------------------------- the export

\* cell_csv: f"{x}/{y}"
cell_csv(cell) == <<cell[1], "/", cell[2]>>

\* cell_fname: f"{x},{y}"
cell_fname(cell) == <<cell[1], ",", cell[2]>>

\* base = f"{alg}_{cell_fname(*target_loc)}_{errpct:02d}"
base(a) == <<a.alg, "_", cell_fname(a.target_loc), "_", a.errpct>>

PerRobot(field) == [i \in 1..Len(ROBOT_IDS) |-> robots[ROBOT_IDS[i]][field]]
PerDigit(f) == [i \in 1..Len(DIGITS) |-> f[DIGITS[i]]]

cf == IF t_first_clue # None THEN "y" ELSE "n"
tt == t_end[1]
\* tbc with the first clue's time forgotten.
tbc_ignores_clue == tt

tbc == IF t_first_clue # None THEN t_first_clue[1] ELSE tt
tac == IF t_first_clue # None THEN tt - tbc ELSE 0
st == SumSeq(PerRobot("steps_total"))
stbc == SumSeq(PerRobot("steps_preclue"))
stac == SumSeq(PerRobot("steps_postclue"))
uc == Cardinality(DOMAIN team_visit_counts)
rv == SumSet(DOMAIN team_visit_counts,
             [c \in DOMAIN team_visit_counts |-> Max(0, team_visit_counts[c] - 1)])

sys_row(a) ==
    [ alg |-> a.alg, tgt |-> cell_csv(a.target_loc), err |-> a.errpct,
      ct |-> a.ct, cf |-> cf,
      st |-> st, tt |-> tt, stbc |-> stbc, tbc |-> tbc, stac |-> stac,
      tac |-> tac, uc |-> uc, rv |-> rv,
      msg |-> msg_total_system, m |-> PerDigit(msg_total_by_digit) ]

robots_rows(a) ==
    [ i \in 1..Len(ROBOT_IDS) |->
        LET rs == robots[ROBOT_IDS[i]] IN
        [ alg |-> a.alg, tgt |-> cell_csv(a.target_loc), err |-> a.errpct,
          rid |-> ROBOT_IDS[i],
          st |-> rs.steps_total, stbc |-> rs.steps_preclue,
          stac |-> rs.steps_postclue,
          uc |-> Cardinality(rs.visited), rv |-> rs.revisits,
          msg |-> SumSeq(PerDigit(rs.msg_by_digit)),
          m |-> PerDigit(rs.msg_by_digit) ] ]

loc_row(a, type, idx, rid, cell) ==
    [ alg |-> a.alg, tgt |-> cell_csv(a.target_loc), err |-> a.errpct,
      ct |-> a.ct, type |-> type, idx |-> idx, rid |-> rid,
      loc |-> cell_csv(cell) ]

\* One row of the given type for every robot, in ROBOT_IDS order, whose
\* entry in `at` (rid -> position or None) is present.
RECURSIVE robot_loc_rows(_, _, _, _)
robot_loc_rows(a, type, at, i) ==
    IF i > Len(ROBOT_IDS) THEN <<>>
    ELSE (IF at[ROBOT_IDS[i]] # None
          THEN <<loc_row(a, type, 0, ROBOT_IDS[i], at[ROBOT_IDS[i]][1])>>
          ELSE <<>>) \o robot_loc_rows(a, type, at, i + 1)

locs_rows(a) ==
    (IF first_clue_loc # None
     THEN <<loc_row(a, "fc", 1, None, first_clue_loc[1])>>
     ELSE <<>>)
    \o [i \in 1..Len(clue_locs) |-> loc_row(a, "cl", i, None, clue_locs[i])]
    \o (IF pos_at_first_clue # None
        THEN robot_loc_rows(a, "pfc", pos_at_first_clue[1], 1)
        ELSE <<>>)
    \o robot_loc_rows(a, "pf", [r \in RobotSet |-> robots[r].last_pos], 1)

\* open(path, "w") and the rows written to it
WriteFile(kind, a, rows) ==
    [k \in DOMAIN files \cup {kind} |->
        IF k = kind THEN [base |-> base(a), rows |-> rows] ELSE files[k]]

\* ---------------------------------------------------------- the main thread

\* t0 = now_s(); client.publish(HUB_COMMAND_TOPIC, START_PAYLOAD)
SetT0 ==
    /\ pc = "start"
    /\ \E now \in clock..MaxTime :
        /\ t0' = Some(now)
        /\ clock' = now
    /\ pc' = "poll"
    /\ UNCHANGED <<trial, done, listener, answers, files, history>>

\* while not done_flag["done"]: time.sleep(0.01)
PollWait ==
    /\ pc = "poll"
    /\ ~done
    /\ UNCHANGED vars

PollDone ==
    /\ pc = "poll"
    /\ done
    /\ pc' = "loop_stop"
    /\ UNCHANGED <<trial, t0, done, clock, listener, answers, files, history>>

\* Interrupt with the flow going on to the prompts and the export.
Interrupt_goes_on_to_export ==
    /\ pc = "poll"
    /\ listener' = "stopped"
    /\ pc' = "prompt"
    /\ UNCHANGED <<trial, t0, done, clock, answers, files, history>>

\* except KeyboardInterrupt: client.loop_stop(); return
Interrupt ==
    /\ pc = "poll"
    /\ listener' = "stopped"
    /\ pc' = "interrupted"
    /\ UNCHANGED <<trial, t0, done, clock, answers, files, history>>

\* A KeyboardInterrupt outside the try block is not caught: the process
\* ends, and its daemon network thread with it.
Kill ==
    /\ pc \in {"start", "loop_stop", "check", "prompt",
               "write_sys", "write_robots", "write_locs"}
    /\ listener' = "stopped"
    /\ pc' = "killed"
    /\ UNCHANGED <<trial, t0, done, clock, answers, files, history>>

\* LoopStop with the network thread left running.
LoopStop_leaves_listener ==
    /\ pc = "loop_stop"
    /\ listener' = listener
    /\ pc' = "check"
    /\ UNCHANGED <<trial, t0, done, clock, answers, files, history>>

\* client.loop_stop(): joins the network thread
LoopStop ==
    /\ pc = "loop_stop"
    /\ listener' = "stopped"
    /\ pc' = "check"
    /\ UNCHANGED <<trial, t0, done, clock, answers, files, history>>

\* if t_end is None or end_loc_reported is None: ... return
CheckEnd ==
    /\ pc = "check"
    /\ pc' = IF t_end = None \/ end_loc_reported = None
             THEN "no_termination"
             ELSE "prompt"
    /\ UNCHANGED <<trial, t0, done, clock, listener, answers, files, history>>

\* The prompts: algorithm, message error (kept as the percentage errpct that
\* names the files), real/collision and, for a collision, the true target
\* location.
Prompt ==
    /\ pc = "prompt"
    /\ \E alg \in AlgInputs, errpct \in ErrPctInputs, ct \in {"r", "c"},
          xy \in TargetInputs :
        answers' = Some([ alg |-> alg, errpct |-> errpct, ct |-> ct,
                          target_loc |-> IF ct = "c" THEN xy
                                         ELSE end_loc_reported[1] ])
    /\ pc' = "write_sys"
    /\ UNCHANGED <<trial, t0, done, clock, listener, files, history>>

WriteSys ==
    /\ pc = "write_sys"
    /\ files' = WriteFile("sys", answers[1], <<sys_row(answers[1])>>)
    /\ pc' = "write_robots"
    /\ UNCHANGED <<trial, t0, done, clock, listener, answers, history>>

WriteRobots ==
    /\ pc = "write_robots"
    /\ files' = WriteFile("robots", answers[1], robots_rows(answers[1]))
    /\ pc' = "write_locs"
    /\ UNCHANGED <<trial, t0, done, clock, listener, answers, history>>

WriteLocs ==
    /\ pc = "write_locs"
    /\ files' = WriteFile("locs", answers[1], locs_rows(answers[1]))
    /\ pc' = "finished"
    /\ UNCHANGED <<trial, t0, done, clock, listener, answers, history>>

Next ==
    \/ Deliver
    \/ SetT0
    \/ PollWait
    \/ PollDone
    \/ Interrupt
    \/ Kill
    \/ LoopStop
    \/ CheckEnd
    \/ Prompt
    \/ WriteSys
    \/ WriteRobots
    \/ WriteLocs

Spec == Init /\ [][Next]_vars

NextCounted ==
    \/ DeliverCounted
    \/ SetT0
    \/ PollWait
    \/ PollDone
    \/ Interrupt
    \/ Kill
    \/ LoopStop
    \/ CheckEnd
    \/ Prompt
    \/ WriteSys
    \/ WriteRobots
    \/ WriteLocs

CountedSpec == Init /\ [][NextCounted]_vars

NextScript ==
    \/ ScriptDeliver
    \/ NoiseDeliver
    \/ SetT0
    \/ PollWait
    \/ PollDone
    \/ LoopStop
    \/ CheckEnd
    \/ Prompt
    \/ WriteSys
    \/ WriteRobots
    \/ WriteLocs

ScriptSpec == Init /\ [][NextScript]_vars

\* The main thread is scheduled: each of its own statements is run once it
\* is reached (the polling loop reads done_flag every 10 ms).  Nothing is
\* assumed of the broker, the operator's answers or interrupts.
MainFairness ==
    /\ WF_vars(SetT0)
    /\ WF_vars(PollDone)
    /\ WF_vars(LoopStop)
    /\ WF_vars(CheckEnd)
    /\ WF_vars(WriteSys)
    /\ WF_vars(WriteRobots)
    /\ WF_vars(WriteLocs)

FairSpec == Init /\ [][Next]_vars /\ MainFairness


\* ------------------------------------------------------------- properties

\* The fields of a robot that track its movement.
Movement(rs) ==
    <<rs.last_pos, rs.steps_total, rs.steps_preclue, rs.steps_postclue,
      rs.visited, rs.revisits>>

\* C1: trial_end_time, end_reporter and end_location are unset until a
\* Target event is handled and from then on hold the time, robot and cell of
\* the first Target event handled, however many Target events follow from
\* the same or another robot: one robot at most is credited.
C1_FirstTargetLatches ==
    IF history.first_target = None
    THEN t_end = None /\ end_reporter = None /\ end_loc_reported = None
    ELSE /\ t_end = Some(history.first_target[1].t)
         /\ end_reporter = Some(history.first_target[1].rid)
         /\ end_loc_reported = Some(history.first_target[1].cell)

\* Robot 00's Target event was handled first, then one of robot 01, and
\* robot 00 is still the one credited.
C1_Witness ==
    /\ history.targets = 2
    /\ history.first_target # None
    /\ history.first_target[1].rid = ROBOT_IDS[1]
    /\ history.delivered[ROBOT_IDS[2]]["5"] = 1
    /\ history.delivered[ROBOT_IDS[1]]["5"] = 1
    /\ end_reporter = Some(ROBOT_IDS[1])

\* C2: once done_flag is set no later message changes a robot tracker or an
\* aggregator field.
C2_NoProcessingAfterDone ==
    [][ done => UNCHANGED <<robots, team_visit_counts, msg_total_system,
                            msg_total_by_digit, clueVars>> ]_vars

\* C3: every robot's steps_total is steps_preclue + steps_postclue, and so
\* the exported team totals satisfy st = stbc + stac.
C3_StepsSplit ==
    /\ \A r \in RobotSet :
          robots[r].steps_total = robots[r].steps_preclue + robots[r].steps_postclue
    /\ st = stbc + stac

\* A robot has taken a step after the first clue.
C3_Witness ==
    \E r \in RobotSet : robots[r].steps_postclue >= 1 /\ robots[r].steps_total >= 1

\* C4: a step in which handle_position is given a Position event of a robot
\* for the cell that is the robot's last_position changes none of the
\* robot's movement fields and no team visit count.
C4_SameCellNoOp ==
    [][ \A r \in RobotSet :
          (/\ history'.pos[r].n = history.pos[r].n + 1
           /\ history'.pos[r].last = robots[r].last_pos)
          => /\ Movement(robots'[r]) = Movement(robots[r])
             /\ team_visit_counts' = team_visit_counts ]_vars

\* A robot was sent its own cell again and has still taken no step.
C4_Witness ==
    \E r \in RobotSet :
        /\ history.pos[r].repeat
        /\ history.pos[r].n = 2
        /\ robots[r].last_pos = history.pos[r].last
        /\ robots[r].steps_total = 0
        /\ team_visit_counts[robots[r].last_pos[1]] = 1

\* C5: after n >= 1 parseable Position events of a robot, no two consecutive
\* ones with the same cell, the robot's steps_total is n - 1.
C5_StepsAreEventsMinusOne ==
    \A r \in RobotSet :
        (history.pos[r].n >= 1 /\ ~history.pos[r].repeat)
        => robots[r].steps_total = history.pos[r].n - 1

\* A robot was sent three Position events, each for another cell than the
\* one before, and has taken two steps.
C5_Witness ==
    \E r \in RobotSet :
        /\ history.pos[r].n = 3
        /\ ~history.pos[r].repeat
        /\ robots[r].steps_total = 2

\* The cells any robot has visited.
AllVisited == UNION {robots[r].visited : r \in RobotSet}

\* C6: the keys of team_visit_counts are the cells visited by any robot, so
\* the exported unique_cells is the number of those cells, and the exported
\* team_revisits is the sum of (visits - 1) over the cells with more than
\* one team visit.
C6_TeamCoverage ==
    /\ DOMAIN team_visit_counts = AllVisited
    /\ uc = Cardinality(AllVisited)
    /\ rv = SumSet({c \in DOMAIN team_visit_counts : team_visit_counts[c] > 1},
                   [c \in DOMAIN team_visit_counts |-> team_visit_counts[c] - 1])

\* Two cells are covered, one of them by two robots.
C6_Witness ==
    /\ uc = 2
    /\ rv >= 1
    /\ \E r1, r2 \in RobotSet : r1 # r2 /\ robots[r1].visited \cap robots[r2].visited # {}

\* C7: every robot's counter for a digit is the number of messages delivered
\* with that robot's topic for the digit, whatever their payloads; the team
\* count per digit is the sum of the robots' counts, and msg_total_system
\* the sum of the team counts.
C7_MessageCounting ==
    /\ \A r \in RobotSet : robots[r].msg_by_digit = history.delivered[r]
    /\ \A d \in VALID_DIGITS :
          msg_total_by_digit[d]
              = SumSet(RobotSet, [r \in RobotSet |-> history.delivered[r][d]])
    /\ msg_total_system = SumSet(VALID_DIGITS, msg_total_by_digit)

\* Three messages were counted, none of which reached a handler: one of a
\* count-only kind, two of kinds 1, 4 or 5 with unparseable payloads.
C7_Witness ==
    /\ msg_total_system = 3
    /\ msg_total_by_digit["2"] = 1
    /\ msg_total_by_digit["1"] + msg_total_by_digit["4"] + msg_total_by_digit["5"] = 2
    /\ t0 # None
    /\ listener = "running"
    /\ \A r \in RobotSet : history.pos[r].n = 0
    /\ history.targets = 0
    /\ history.clues = <<>>

\* C8: first_clue_time, first_clue_location and positions_at_first_clue are
\* unset until a Clue event is handled and from then on hold the time and
\* cell of the first Clue event handled and every robot's last_position at
\* that moment, whatever Clue and Position events follow; all_clue_locations
\* holds the cells of all Clue events handled, in arrival order.
C8_FirstClueLatches ==
    /\ clue_locs = history.clues
    /\ IF history.first_clue = None
       THEN t_first_clue = None /\ first_clue_loc = None /\ pos_at_first_clue = None
       ELSE /\ t_first_clue = Some(history.first_clue[1].t)
            /\ first_clue_loc = Some(history.first_clue[1].cell)
            /\ pos_at_first_clue = Some(history.first_clue[1].at)

\* A second Clue event, for another cell, and a Position event came after
\* the first clue: the first clue's cell is still the one latched, and the
\* snapshot still shows the robot that has moved since as it was.
C8_Witness ==
    /\ Len(clue_locs) = 2
    /\ first_clue_loc = Some(clue_locs[1])
    /\ clue_locs[2] # clue_locs[1]
    /\ \E r \in RobotSet : pos_at_first_clue[1][r] # robots[r].last_pos

\* C9: with trial_end_time or end_location unset the main flow is starting,
\* waiting, or has ended (interrupted, or "no termination message") and no
\* output file exists; an interrupted wait leaves no output file.
C9_NoTargetNoFiles ==
    /\ (t_end = None \/ end_loc_reported = None)
         => /\ DOMAIN files = {}
            /\ pc \in {"start", "poll", "interrupted", "killed", "no_termination"}
    /\ pc \in {"interrupted", "no_termination"} => DOMAIN files = {}

\* The operator interrupted the wait of a trial that had received messages
\* but no Target event.
C9_Witness ==
    /\ pc = "interrupted"
    /\ t_end = None
    /\ msg_total_system >= 1
    /\ DOMAIN files = {}

\* The rows the export writes to the file of the given kind.
RowsOf(kind, a) ==
    CASE kind = "sys" -> <<sys_row(a)>>
      [] kind = "robots" -> robots_rows(a)
      [] kind = "locs" -> locs_rows(a)

\* C10: from the main flow's first read of the trial state after the wait
\* (the check of t_end) on, the network thread is stopped, and every file
\* written holds the rows the final state gives.
C10_ExportReadsFrozenState ==
    /\ pc \in {"check", "prompt", "write_sys", "write_robots", "write_locs",
               "finished", "no_termination"}
         => listener = "stopped"
    /\ \A k \in DOMAIN files :
          files[k] = [base |-> base(answers[1]), rows |-> RowsOf(k, answers[1])]

\* All three files are written, of a trial with a position and a clue.
C10_Witness ==
    /\ pc = "finished"
    /\ DOMAIN files = {"sys", "robots", "locs"}
    /\ uc >= 1
    /\ clue_locs # <<>>

\* The states in which the main flow has ended.
Terminal == {"interrupted", "killed", "no_termination", "finished"}

\* C11: an operator interrupt at any point of the main flow leaves no output
\* file: whenever the main flow has ended, either all three output files
\* have been written or none has.
C11_AllOrNothing ==
    pc \in Terminal => DOMAIN files \in { {}, {"sys", "robots", "locs"} }

\* C12: once the listener has been handed the first Target message (a valid
\* robot topic of kind 5 with a parseable payload), the completion flag is
\* set and trial_end_time is latched.
C12_FirstTargetEndsRun ==
    history.seen_target => (done /\ t_end # None)

\* C18: the listener never reaches "t_rel = now_s() - t0" while t0 is unset
\* (reaching it raises TypeError and ends the network thread).
C18_T0SetBeforeEvents ==
    listener # "crashed"

\* C17: whenever a file is exported, a latched first_clue_time is not later
\* than trial_end_time, so 0 <= time_before_clue <= total_time and
\* time_after_clue >= 0.
C17_ClueNotAfterEnd ==
    DOMAIN files # {} =>
        /\ t_first_clue # None => t_first_clue[1] <= t_end[1]
        /\ 0 <= tbc /\ tbc <= tt
        /\ tac >= 0

\* C15: with the clock non-decreasing along the deliveries, a step handled
\* while no clue is latched is counted as pre-clue and a step handled once
\* the first clue is latched is counted as post-clue, also when its
\* timestamp equals first_clue_time; steps_pre_clue never changes once
\* first_clue_time is set.
C15_StepsSplitAtFirstClue ==
    [][ \A r \in RobotSet :
          LET d(f) == robots'[r][f] - robots[r][f] IN
          IF t_first_clue = None
          THEN d("steps_total") = d("steps_preclue") /\ d("steps_postclue") = 0
          ELSE d("steps_total") = d("steps_postclue") /\ d("steps_preclue") = 0
      ]_vars

\* A robot took a step after the first clue was latched, at a time equal to
\* first_clue_time, and the step was counted as post-clue.
C15_Witness ==
    /\ t0 # None
    /\ t_first_clue = Some(clock - t0[1])
    /\ \E r \in RobotSet :
          robots[r].steps_postclue = 1 /\ robots[r].steps_preclue = 0

\* C19: a robot without a position has no step, no revisit and no visited
\* cell; a robot with a position has it among its visited cells, and
\* |visited| + revisits = steps_total + 1.
C19_VisitAccounting ==
    \A r \in RobotSet :
        IF robots[r].last_pos = None
        THEN /\ robots[r].steps_total = 0
             /\ robots[r].revisits = 0
             /\ robots[r].visited = {}
        ELSE /\ robots[r].last_pos[1] \in robots[r].visited
             /\ Cardinality(robots[r].visited) + robots[r].revisits
                  = robots[r].steps_total + 1

\* A robot went to a second cell and back to its first one: two steps, two
\* visited cells, one revisit.
C19_Witness ==
    \E r \in RobotSet :
        /\ robots[r].steps_total = 2
        /\ Cardinality(robots[r].visited) = 2
        /\ robots[r].revisits = 1

\* The team visits, the robots' visits and the robots' revisits, summed.
TeamVisits == SumSet(DOMAIN team_visit_counts, team_visit_counts)
RobotVisits ==
    SumSet(RobotSet, [r \in RobotSet |->
                        Cardinality(robots[r].visited) + robots[r].revisits])
RobotRevisits == SumSet(RobotSet, [r \in RobotSet |-> robots[r].revisits])

\* Some cell is among the visited cells of two different robots.
SharedCell ==
    \E r1, r2 \in RobotSet :
        r1 # r2 /\ robots[r1].visited \cap robots[r2].visited # {}

\* C20: the team visit counts sum to the robots' |visited| + revisits, so
\* team_revisits is at least the sum of the robots' revisits, and is larger
\* exactly when two different robots have visited a same cell.
C20_TeamAndRobotRevisits ==
    /\ TeamVisits = RobotVisits
    /\ rv >= RobotRevisits
    /\ (rv > RobotRevisits) <=> SharedCell

\* Two robots were first placed on the same cell: one team revisit, no
\* revisit of either robot.
C20_Witness ==
    /\ rv = 1
    /\ RobotRevisits = 0
    /\ robots[ROBOT_IDS[1]].last_pos # None
    /\ robots[ROBOT_IDS[1]].last_pos = robots[ROBOT_IDS[2]].last_pos
    /\ robots[ROBOT_IDS[1]].steps_total = 0
    /\ robots[ROBOT_IDS[2]].steps_total = 0

\* The main flow has left its polling loop and the listener is stopped, with
\* the completion flag set, the trial-end fields all set and the "no
\* termination message" branch not taken.
WaitEndedWithTarget ==
    /\ done
    /\ pc \in {"check", "prompt", "write_sys", "write_robots", "write_locs",
               "finished"}
    /\ listener = "stopped"
    /\ t_end # None /\ end_reporter # None /\ end_loc_reported # None

\* The operator has ended the run with an interrupt.
OperatorEnded == pc \in {"interrupted", "killed"}

\* C16: with the main flow scheduled fairly, once a Target message (valid
\* robot topic, parseable payload) has been handed to the running listener,
\* the completion flag gets set, the main flow leaves its polling loop and
\* stops the listener, with the trial-end fields all set, unless the
\* operator ends the run first.
C16_TargetEndsWait ==
    history.seen_target ~> (WaitEndedWithTarget \/ OperatorEnded)

\* C14: a message whose topic is no valid robot topic changes no state at
\* all, counters included; a message with a valid robot topic of kind 2, 3
\* or 6, or of kind 1, 4 or 5 with an unparseable payload, is counted once
\* and changes no position, step, visit, clue or trial-end field nor the
\* completion flag.
C14_IgnoredInput ==
    [][ history'.handed = history.handed + 1 =>
          CASE history'.last = "invalid" ->
                 UNCHANGED <<trial, t0, done, clock, listener>>
            [] history'.last \in {"count_only", "unparseable"} ->
                 /\ \A r \in RobotSet : Movement(robots'[r]) = Movement(robots[r])
                 /\ UNCHANGED <<team_visit_counts, clueVars, endVars, done>>
                 /\ msg_total_system' = msg_total_system + 1
            [] OTHER -> TRUE
      ]_vars

\* A robot was placed, then a message with an invalid topic and one with an
\* unparseable payload were handed over: two messages are counted and the
\* robot is where it was, with no step.
C14_Witness ==
    /\ history.handed = 3
    /\ history.last = "unparseable"
    /\ msg_total_system = 2
    /\ \E r \in RobotSet :
          /\ robots[r].last_pos # None
          /\ robots[r].steps_total = 0
          /\ history.pos[r].n = 1
    /\ t_end = None /\ clue_locs = <<>>

\* C13: after Position(00,(0,0)), Position(01,(5,5)), Position(00,(0,1)) at
\* t=2, Clue(01,(3,3)) at t=3, Position(00,(0,2)) at t=4 and
\* Target(00,(0,2)) at t=10, robot 00 has 2 steps, 1 pre-clue and 1
\* post-clue, the snapshot at the first clue is {00:(0,1), 01:(5,5)},
\* total_time is 10, time_before_clue 3, time_after_clue 7, unique_cells 4,
\* team_revisits 0, and robot 00 is the robot credited with the target; the
\* exported system row carries these values.
C13_Scenario ==
    Handled = Len(Script) =>
        /\ robots[ROBOT_IDS[1]].steps_total = 2
        /\ robots[ROBOT_IDS[1]].steps_preclue = 1
        /\ robots[ROBOT_IDS[1]].steps_postclue = 1
        /\ pos_at_first_clue =
              Some([r \in RobotSet |->
                      IF r = ROBOT_IDS[1] THEN Some(<<0, 1>>)
                      ELSE IF r = ROBOT_IDS[2] THEN Some(<<5, 5>>)
                      ELSE None])
        /\ tt = 10 /\ tbc = 3 /\ tac = 7
        /\ uc = 4 /\ rv = 0
        /\ DOMAIN team_visit_counts = { <<0, 0>>, <<0, 1>>, <<0, 2>>, <<5, 5>> }
        /\ end_reporter = Some(ROBOT_IDS[1])
        /\ "sys" \in DOMAIN files =>
              LET row == files["sys"].rows[1] IN
              /\ row.st = 2 /\ row.stbc = 1 /\ row.stac = 1
              /\ row.tt = 10 /\ row.tbc = 3 /\ row.tac = 7
              /\ row.uc = 4 /\ row.rv = 0

\* The scenario has been processed to its end and exported.
C13_Witness ==
    /\ Handled = Len(Script)
    /\ pc = "finished"
    /\ DOMAIN files = {"sys", "robots", "locs"}
    /\ robots[ROBOT_IDS[1]].last_pos = Some(<<0, 2>>)
    /\ t_end = Some(10)

====
